---------------------------- MODULE Spec2Model ----------------------------
(***************************************************************************)
(* t1net: the client side of the Tribes 1 UDP query protocol.              *)
(*                                                                         *)
(* The model follows game.go (GameServer), the MasterServer of             *)
(* unnamed/part_002 (the variant with a timeout and a local address) and   *)
(* the wire codec of utils.go.  Buffers are sequences of bytes, strings    *)
(* are the sequences of their bytes, and every decode step is an operator  *)
(* translated from the statement of the source that performs it.           *)
(*                                                                         *)
(* A Query blocks only in ReadFromUDP, so a call is modelled by one action *)
(* from its entry to the read (resolve, Lock, reset, dial, send) and one   *)
(* action from the return of the read to the return of the call; the       *)
(* master query has one such action per received packet.                   *)
(***************************************************************************)
EXTENDS Integers, Sequences, FiniteSets, TLC

VARIABLES
    focus,       \* which entity the caller of this behaviour owns
    nQueries,    \* Query calls made so far
    g,           \* the GameServer struct (game.go:42-66), mutex apart
    gLock,       \* g.mutex: "free" or the caller holding the write lock
    gCall,       \* per caller: where its Query stands, and the key it sent
    gRet,        \* what the last GameServer.Query returned: "never" before the
                 \* first, "pending" while one holds the lock, "none" for nil
    gIn,         \* the delivery the last GameServer.Query read
    gOff,        \* bytes the last GameServer.Query had consumed at its return
    gSock,       \* the UDP socket of the current or last GameServer.Query
    gLat,        \* time.Since(g.queryTime) when a GameServer.Query last received
    m,           \* the MasterServer struct (part_002:29-41), mutex apart
    mLock,       \* m.mutex
    mCall,       \* per caller: pc, key, loop counter p, pingCalculated
    mRet,        \* the same for MasterServer.Query
    mIn,         \* the deliveries the current or last MasterServer.Query read
    mOff,        \* bytes consumed of the last packet read
    mSock,       \* the UDP socket of the current or last MasterServer.Query
    mSum,        \* the sum, unbounded, of the per-packet counts added to
                 \* m.serverCount since it was last set to 0
    obs,         \* what the read accessors have observed
    lists,       \* a list field, the slices on the heap, a slice a caller holds
    codec        \* one use of the wire codec of utils.go: input, buffer, result

vars == <<focus, nQueries, g, gLock, gCall, gRet, gIn, gOff, gSock, gLat,
          m, mLock, mCall, mRet, mIn, mOff, mSock, mSum, obs, lists, codec>>

gameVars   == <<g, gLock, gCall, gRet, gIn, gOff, gSock, gLat>>
masterVars == <<m, mLock, mCall, mRet, mIn, mOff, mSock, mSum>>
auxVars    == <<lists, codec>>

----------------------------------------------------------------------------
(* Bounds and inputs *)

\* Query calls per behaviour.
MaxQueries == 2

\* Goroutines of the caller that may call Query or an accessor.
Callers == {"c1", "c2"}

\* The keys uint16(rand.Uint32()) is drawn from here.
Keys == {4660, 43981}

\* Round-trip times time.Since(queryTime) is drawn from.
Latencies == {3, 5}

\* The address g.address / m.address resolves to.
Target == [ip |-> <<127, 0, 0, 1>>, port |-> 28999]

\* Sources a datagram may come from that are not the target.
OtherSources == {[ip |-> <<127, 0, 0, 2>>, port |-> 28999],
                 [ip |-> <<127, 0, 0, 1>>, port |-> 28998]}

Min(a, b) == IF a < b THEN a ELSE b

----------------------------------------------------------------------------
(* bytes.Reader and encoding/binary, as the codec uses them.  A reader is  *)
(* a buffer and the offset of its next unread byte.                        *)

\* reader.ReadByte()
ReadByte(buf, off) ==
    IF off < Len(buf)
    THEN [b |-> buf[off + 1], err |-> "none", off |-> off + 1]
    ELSE [b |-> 0, err |-> "EOF", off |-> off]

\* binary.Read(reader, binary.BigEndian, &uint16): io.ReadFull of 2 bytes.
ReadUint16BE(buf, off) ==
    IF off + 2 <= Len(buf)
    THEN [v |-> buf[off + 1] * 256 + buf[off + 2], err |-> "none", off |-> off + 2]
    ELSE [v |-> 0, err |-> IF off < Len(buf) THEN "UnexpectedEOF" ELSE "EOF",
          off |-> Len(buf)]

\* binary.Read(reader, binary.LittleEndian, &uint16)
ReadUint16LE(buf, off) ==
    IF off + 2 <= Len(buf)
    THEN [v |-> buf[off + 1] + buf[off + 2] * 256, err |-> "none", off |-> off + 2]
    ELSE [v |-> 0, err |-> IF off < Len(buf) THEN "UnexpectedEOF" ELSE "EOF",
          off |-> Len(buf)]

----------------------------------------------------------------------------
(* utils.go *)

\* A ReadPascalString whose test of the length byte is b > 1.
ReadPascalStringFromTwo(buf, off) ==
    LET l == ReadByte(buf, off) IN
    IF l.err # "none" THEN [str |-> <<>>, err |-> l.err, off |-> l.off]
    ELSE IF l.b > 1
         THEN IF l.off + l.b <= Len(buf)
              THEN [str |-> SubSeq(buf, l.off + 1, l.off + l.b), err |-> "none",
                    off |-> l.off + l.b]
              ELSE [str |-> <<>>, err |-> "EOF", off |-> Len(buf)]
         ELSE [str |-> <<>>, err |-> "none", off |-> l.off]

\* ReadPascalString: a length byte, then that many bytes; "" with the error
\* when io.CopyN finds fewer.
ReadPascalString(buf, off) ==
    LET l == ReadByte(buf, off) IN
    IF l.err # "none" THEN [str |-> <<>>, err |-> l.err, off |-> l.off]
    ELSE IF l.b > 0
         THEN IF l.off + l.b <= Len(buf)
              THEN [str |-> SubSeq(buf, l.off + 1, l.off + l.b), err |-> "none",
                    off |-> l.off + l.b]
              ELSE [str |-> <<>>, err |-> "EOF", off |-> Len(buf)]
         ELSE [str |-> <<>>, err |-> "none", off |-> l.off]

\* A WritePascalString without the test of the length.
WritePascalStringUnchecked(buf, str) ==
    [buf |-> buf \o <<Len(str) % 256>> \o str, err |-> "none"]

\* WritePascalString: nothing written and an error when the string is longer
\* than 255 bytes; else byte(len(str)) and the bytes of the string are
\* appended (a bytes.Buffer write returns no error and writes all of it).
WritePascalString(buf, str) ==
    IF Len(str) > 255
    THEN [buf |-> buf, err |-> "StringTooLong"]
    ELSE [buf |-> buf \o <<Len(str) % 256>> \o str, err |-> "none"]

\* A ReadAddressPort without the test of the tag.
ReadAddressPortAnyTag(buf, off) ==
    LET t == ReadByte(buf, off) IN
    IF t.err # "none" THEN [ip |-> <<0, 0, 0, 0>>, port |-> 0, err |-> t.err, off |-> t.off]
    ELSE IF t.off + 4 > Len(buf)
         THEN [ip |-> <<0, 0, 0, 0>>, port |-> 0,
               err |-> IF t.off < Len(buf) THEN "UnexpectedEOF" ELSE "EOF",
               off |-> Len(buf)]
         ELSE LET p == ReadUint16LE(buf, t.off + 4) IN
              [ip |-> SubSeq(buf, t.off + 1, t.off + 4), port |-> p.v,
               err |-> p.err, off |-> p.off]

\* ReadAddressPort: tag 6, four address bytes in order, the port low byte first.
ReadAddressPort(buf, off) ==
    LET t == ReadByte(buf, off) IN
    IF t.err # "none" THEN [ip |-> <<0, 0, 0, 0>>, port |-> 0, err |-> t.err, off |-> t.off]
    ELSE IF t.b # 6
         THEN [ip |-> <<0, 0, 0, 0>>, port |-> 0, err |-> "InvalidAddressTag", off |-> t.off]
         ELSE IF t.off + 4 > Len(buf)
              THEN [ip |-> <<0, 0, 0, 0>>, port |-> 0,
                    err |-> IF t.off < Len(buf) THEN "UnexpectedEOF" ELSE "EOF",
                    off |-> Len(buf)]
              ELSE LET p == ReadUint16LE(buf, t.off + 4) IN
                   [ip |-> SubSeq(buf, t.off + 1, t.off + 4), port |-> p.v,
                    err |-> p.err, off |-> p.off]

\* A WriteAddressPort that writes the port high byte first.
WriteAddressPortBigEndian(buf, ip, port) ==
    IF Len(ip) # 4
    THEN [buf |-> buf \o <<6>>, err |-> "InvalidAddressLength"]
    ELSE [buf |-> buf \o <<6>> \o ip \o <<port \div 256, port % 256>>, err |-> "none"]

\* WriteAddressPort: the tag 6 is written first, then the length of the
\* address is tested (the tag stays in the buffer when it is not 4), then
\* the address bytes in order and the port low byte first.
WriteAddressPort(buf, ip, port) ==
    IF Len(ip) # 4
    THEN [buf |-> buf \o <<6>>, err |-> "InvalidAddressLength"]
    ELSE [buf |-> buf \o <<6>> \o ip \o <<port % 256, port \div 256>>, err |-> "none"]

----------------------------------------------------------------------------
(* game.go: the GameServer struct and GameServer.Query *)

\* NewGameServer: every field but the address is zero.
NewGameServer ==
    [ip |-> <<>>, port |-> 0, ping |-> 0, queryTime |-> 0,
     name |-> <<>>, game |-> <<>>, version |-> <<>>,
     dedicated |-> FALSE, password |-> FALSE,
     numPlayers |-> 0, maxPlayers |-> 0, cpuSpeed |-> 0,
     mod |-> <<>>, serverType |-> <<>>, mission |-> <<>>, info |-> <<>>,
     numTeams |-> 0, teamScoreHeader |-> <<>>, playerScoreHeader |-> <<>>,
     teams |-> <<>>, players |-> <<>>]

\* The read accessors of GameServer, one per field (game.go:68-184).
GameAccessors ==
    {"ping", "queryTime", "name", "game", "version", "dedicated", "password",
     "numPlayers", "maxPlayers", "cpuSpeed", "mod", "serverType", "mission",
     "info", "numTeams", "teamScoreHeader", "playerScoreHeader", "teams", "players"}

\* The fields a reply is decoded into.
GameDecoded == GameAccessors \ {"ping", "queryTime"}

\* readBuffer := make([]byte, 2048)
ReadBufferSize == 2048

\* if n < 20
MinReplyLen == 20

\* Some decoded field holds a value a Query has put there.
GameDirty(s) == \E f \in GameDecoded : s[f] # NewGameServer[f]

\* A faulty variant of GameReset: the lists not set to nil.
GameResetKeepsLists(s) ==
    [s EXCEPT !.ip = Target.ip, !.port = Target.port,
              !.numTeams = 0, !.numPlayers = 0, !.maxPlayers = 0]

\* The reset under the lock, before the socket is opened (game.go:208-214).
GameReset(s) ==
    [s EXCEPT !.ip = Target.ip, !.port = Target.port,
              !.numTeams = 0, !.numPlayers = 0, !.maxPlayers = 0,
              !.teams = <<>>, !.players = <<>>]

\* A decode in progress: the struct, the reader, and the error once there is one.
\* Step runs the next statement unless an earlier one has returned.
Step(c, F(_)) == IF c.err = "none" THEN F(c) ELSE c

\* b, err := reader.ReadByte(); if b != want { return error }
ExpectByte(c, want, kind) ==
    LET r == ReadByte(c.buf, c.off) IN
    IF r.err # "none" THEN [c EXCEPT !.err = r.err, !.off = r.off]
    ELSE IF r.b # want THEN [c EXCEPT !.err = kind, !.off = r.off]
    ELSE [c EXCEPT !.off = r.off]

\* A faulty variant of ExpectKey: the two bytes read, the comparison left out.
ExpectKeyUnchecked(c, key) ==
    LET r == ReadUint16BE(c.buf, c.off) IN
    IF r.err # "none" THEN [c EXCEPT !.err = r.err, !.off = r.off]
    ELSE [c EXCEPT !.off = r.off]

\* binary.Read(reader, binary.BigEndian, &readKey); if key != readKey { return error }
ExpectKey(c, key) ==
    LET r == ReadUint16BE(c.buf, c.off) IN
    IF r.err # "none" THEN [c EXCEPT !.err = r.err, !.off = r.off]
    ELSE IF key # r.v THEN [c EXCEPT !.err = "KeyMismatch", !.off = r.off]
    ELSE [c EXCEPT !.off = r.off]

\* s.f, err = ReadPascalString(reader): the field is assigned also when err != nil.
StringField(c, f) ==
    LET r == ReadPascalString(c.buf, c.off) IN
    [c EXCEPT !.s = [c.s EXCEPT ![f] = r.str], !.off = r.off, !.err = r.err]

\* b, err = reader.ReadByte(); if err != nil { return }; s.f = b
ByteField(c, f) ==
    LET r == ReadByte(c.buf, c.off) IN
    IF r.err # "none" THEN [c EXCEPT !.err = r.err, !.off = r.off]
    ELSE [c EXCEPT !.s = [c.s EXCEPT ![f] = r.b], !.off = r.off]

\* b, err = reader.ReadByte(); if err != nil { return }; s.f = b == 1
BoolField(c, f) ==
    LET r == ReadByte(c.buf, c.off) IN
    IF r.err # "none" THEN [c EXCEPT !.err = r.err, !.off = r.off]
    ELSE [c EXCEPT !.s = [c.s EXCEPT ![f] = (r.b = 1)], !.off = r.off]

\* A faulty variant of CPUSpeedField: the two bytes taken high byte first.
CPUSpeedFieldBigEndian(c) ==
    LET r == ReadUint16BE(c.buf, c.off) IN
    IF r.err # "none" THEN [c EXCEPT !.err = r.err, !.off = r.off]
    ELSE [c EXCEPT !.s = [c.s EXCEPT !.cpuSpeed = r.v], !.off = r.off]

\* err = binary.Read(reader, binary.LittleEndian, &g.cpuSpeed)
CPUSpeedField(c) ==
    LET r == ReadUint16LE(c.buf, c.off) IN
    IF r.err # "none" THEN [c EXCEPT !.err = r.err, !.off = r.off]
    ELSE [c EXCEPT !.s = [c.s EXCEPT !.cpuSpeed = r.v], !.off = r.off]

\* One turn of the team loop: teamName, teamScore, append (game.go:370-380).
ReadTeam(c) ==
    LET n == ReadPascalString(c.buf, c.off) IN
    IF n.err # "none" THEN [c EXCEPT !.err = n.err, !.off = n.off]
    ELSE LET sc == ReadPascalString(c.buf, n.off) IN
         IF sc.err # "none" THEN [c EXCEPT !.err = sc.err, !.off = sc.off]
         ELSE [c EXCEPT !.s = [c.s EXCEPT !.teams =
                                  Append(@, [Name |-> n.str, Score |-> sc.str])],
                        !.off = sc.off]

\* for i := uint8(0); i < g.numTeams; i++: the turns with i in from..to-1, in
\* order, none after a return.  (The turns are split in two halves so that a
\* loop of 255 turns nests 8 deep; i never exceeds 254, so i++ never wraps.)
RECURSIVE ReadTeams(_, _, _)
ReadTeams(c, from, to) ==
    IF ~(from < to) \/ c.err # "none" THEN c
    ELSE IF to - from = 1 THEN ReadTeam(c)
    ELSE LET mid == (from + to) \div 2 IN
         ReadTeams(ReadTeams(c, from, mid), mid, to)

\* One turn of the player loop: ping, pl, team, playerName, playerScore, append
\* (game.go:386-411).
ReadPlayer(c) ==
    LET pg == ReadByte(c.buf, c.off) IN
    IF pg.err # "none" THEN [c EXCEPT !.err = pg.err, !.off = pg.off]
    ELSE LET pl == ReadByte(c.buf, pg.off) IN
    IF pl.err # "none" THEN [c EXCEPT !.err = pl.err, !.off = pl.off]
    ELSE LET tm == ReadByte(c.buf, pl.off) IN
    IF tm.err # "none" THEN [c EXCEPT !.err = tm.err, !.off = tm.off]
    ELSE LET n == ReadPascalString(c.buf, tm.off) IN
    IF n.err # "none" THEN [c EXCEPT !.err = n.err, !.off = n.off]
    ELSE LET sc == ReadPascalString(c.buf, n.off) IN
    IF sc.err # "none" THEN [c EXCEPT !.err = sc.err, !.off = sc.off]
    ELSE [c EXCEPT !.s = [c.s EXCEPT !.players =
                             Append(@, [Ping |-> pg.b, PL |-> pl.b, Team |-> tm.b,
                                        Name |-> n.str, Score |-> sc.str])],
                   !.off = sc.off]

\* for i := uint8(0); i < g.numPlayers; i++: the turns with i in from..to-1.
RECURSIVE ReadPlayers(_, _, _)
ReadPlayers(c, from, to) ==
    IF ~(from < to) \/ c.err # "none" THEN c
    ELSE IF to - from = 1 THEN ReadPlayer(c)
    ELSE LET mid == (from + to) \div 2 IN
         ReadPlayers(ReadPlayers(c, from, mid), mid, to)

\* A faulty variant of NoLeftOver: the final check left out.
NoLeftOverUnchecked(c) == c

\* if reader.Len() != 0 { return error }
NoLeftOver(c) ==
    IF c.off # Len(c.buf) THEN [c EXCEPT !.err = "TrailingData"] ELSE c

\* The decode of GameServer.Query, from bytes.NewReader to the final return
\* (game.go:260-418).
GameDecode(s, buf, key) ==
    LET c0  == [s |-> s, buf |-> buf, off |-> 0, err |-> "none"]
        c1  == ExpectByte(c0, 99, "ProtocolMismatch")
        c2  == Step(c1, LAMBDA c: ExpectKey(c, key))
        c3  == Step(c2, LAMBDA c: ExpectByte(c, 98, "ProtocolMismatch"))
        c4  == Step(c3, LAMBDA c: StringField(c, "game"))
        c5  == Step(c4, LAMBDA c: StringField(c, "version"))
        c6  == Step(c5, LAMBDA c: StringField(c, "name"))
        c7  == Step(c6, LAMBDA c: BoolField(c, "dedicated"))
        c8  == Step(c7, LAMBDA c: BoolField(c, "password"))
        c9  == Step(c8, LAMBDA c: ByteField(c, "numPlayers"))
        c10 == Step(c9, LAMBDA c: ByteField(c, "maxPlayers"))
        c11 == Step(c10, CPUSpeedField)
        c12 == Step(c11, LAMBDA c: StringField(c, "mod"))
        c13 == Step(c12, LAMBDA c: StringField(c, "serverType"))
        c14 == Step(c13, LAMBDA c: StringField(c, "mission"))
        c15 == Step(c14, LAMBDA c: StringField(c, "info"))
        c16 == Step(c15, LAMBDA c: ByteField(c, "numTeams"))
        c17 == Step(c16, LAMBDA c: StringField(c, "teamScoreHeader"))
        c18 == Step(c17, LAMBDA c: StringField(c, "playerScoreHeader"))
        c19 == Step(c18, LAMBDA c: ReadTeams(c, 0, c.s.numTeams))
        c20 == Step(c19, LAMBDA c: ReadPlayers(c, 0, c.s.numPlayers))
    IN  Step(c20, NoLeftOver)

\* A faulty variant of SourceMatches: the port left out of the comparison.
SourceMatchesIPOnly(addr, remoteAddr) == addr.ip = remoteAddr.ip

\* if !addr.IP.Equal(remoteAddr.IP) || addr.Port != remoteAddr.Port
SourceMatches(addr, remoteAddr) ==
    addr.ip = remoteAddr.ip /\ addr.port = remoteAddr.port

\* A GameServer.Query without the test of the length.
GameAfterReadNoLengthTest(s, rx, addr, key, elapsed) ==
    LET s1 == [s EXCEPT !.ping = elapsed] IN
    IF ~SourceMatches(addr, Target)
    THEN [s |-> s1, buf |-> rx, off |-> 0, err |-> "SourceMismatch"]
    ELSE GameDecode(s1, rx, key)

\* A GameServer.Query that stores the latency after the checks of the source
\* and of the length.
GameAfterReadPingLate(s, rx, addr, key, elapsed) ==
    IF ~SourceMatches(addr, Target)
    THEN [s |-> s, buf |-> rx, off |-> 0, err |-> "SourceMismatch"]
    ELSE IF Len(rx) < MinReplyLen
    THEN [s |-> s, buf |-> rx, off |-> 0, err |-> "ReplyTooShort"]
    ELSE GameDecode([s EXCEPT !.ping = elapsed], rx, key)

\* GameServer.Query from the return of ReadFromUDP (n bytes from addr) to its
\* own return (game.go:250-418): the struct and the error it returns.
GameAfterRead(s, rx, addr, key, elapsed) ==
    LET s1 == [s EXCEPT !.ping = elapsed] IN
    IF ~SourceMatches(addr, Target)
    THEN [s |-> s1, buf |-> rx, off |-> 0, err |-> "SourceMismatch"]
    ELSE IF Len(rx) < MinReplyLen
    THEN [s |-> s1, buf |-> rx, off |-> 0, err |-> "ReplyTooShort"]
    ELSE GameDecode(s1, rx, key)

----------------------------------------------------------------------------
(* The game server's side, as the test of unnamed/part_001 plays it: a      *)
(* reply is the bytes of a record in the order of its sendBuffer.           *)

\* A length-prefixed string on the wire.
PStr(str) == <<Len(str)>> \o str

\* The records of a list on the wire, one after the other.
RECURSIVE TeamsBytes(_)
TeamsBytes(ts) ==
    IF Len(ts) = 0 THEN <<>>
    ELSE IF Len(ts) = 1 THEN PStr(ts[1].Name) \o PStr(ts[1].Score)
    ELSE LET h == Len(ts) \div 2 IN
         TeamsBytes(SubSeq(ts, 1, h)) \o TeamsBytes(SubSeq(ts, h + 1, Len(ts)))

RECURSIVE PlayersBytes(_)
PlayersBytes(ps) ==
    IF Len(ps) = 0 THEN <<>>
    ELSE IF Len(ps) = 1
         THEN <<ps[1].Ping, ps[1].PL, ps[1].Team>> \o PStr(ps[1].Name) \o PStr(ps[1].Score)
    ELSE LET h == Len(ps) \div 2 IN
         PlayersBytes(SubSeq(ps, 1, h)) \o PlayersBytes(SubSeq(ps, h + 1, Len(ps)))

\* The reply to a request with key k that reports record r.
GameReplyBytes(r, k) ==
    <<99, k \div 256, k % 256, 98>>
    \o PStr(r.game) \o PStr(r.version) \o PStr(r.name)
    \o <<r.dedicated, r.password, Len(r.players), r.maxPlayers, r.cpuLo, r.cpuHi>>
    \o PStr(r.mod) \o PStr(r.serverType) \o PStr(r.mission) \o PStr(r.info)
    \o <<Len(r.teams)>> \o PStr(r.teamScoreHeader) \o PStr(r.playerScoreHeader)
    \o TeamsBytes(r.teams) \o PlayersBytes(r.players)

\* All strings empty, no team, no player: the shortest reply.
ReplyEmpty ==
    [game |-> <<>>, version |-> <<>>, name |-> <<>>, dedicated |-> 0, password |-> 0,
     maxPlayers |-> 0, cpuLo |-> 0, cpuHi |-> 0, mod |-> <<>>, serverType |-> <<>>,
     mission |-> <<>>, info |-> <<>>, teamScoreHeader |-> <<>>,
     playerScoreHeader |-> <<>>, teams |-> <<>>, players |-> <<>>]

\* The reply of TestGameServer, shortened: one team, two players.
ReplyA ==
    [game |-> <<84>>, version |-> <<49, 46, 51>>, name |-> <<77, 121>>,
     dedicated |-> 1, password |-> 0, maxPlayers |-> 96, cpuLo |-> 172, cpuHi |-> 13,
     mod |-> <<114>>, serverType |-> <<116>>, mission |-> <<119>>, info |-> <<73>>,
     teamScoreHeader |-> <<>>, playerScoreHeader |-> <<78>>,
     teams |-> <<[Name |-> <<67>>, Score |-> <<>>]>>,
     players |-> <<[Ping |-> 28, PL |-> 1, Team |-> 0, Name |-> <<116, 100>>, Score |-> <<120>>],
                   [Ping |-> 0, PL |-> 0, Team |-> 1, Name |-> <<112>>, Score |-> <<>>]>>]

\* Another server: flag bytes other than 0 and 1, two teams, one player.
ReplyB ==
    [game |-> <<71>>, version |-> <<50>>, name |-> <<>>,
     dedicated |-> 2, password |-> 1, maxPlayers |-> 255, cpuLo |-> 1, cpuHi |-> 0,
     mod |-> <<>>, serverType |-> <<83, 84>>, mission |-> <<>>, info |-> <<>>,
     teamScoreHeader |-> <<72>>, playerScoreHeader |-> <<>>,
     teams |-> <<[Name |-> <<>>, Score |-> <<49>>], [Name |-> <<66>>, Score |-> <<50>>]>>,
     players |-> <<[Ping |-> 255, PL |-> 255, Team |-> 255, Name |-> <<>>, Score |-> <<57>>]>>]

\* 255 teams and 255 players, the most the count bytes can announce.
ReplyFull ==
    [ReplyEmpty EXCEPT
        !.teams = [i \in 1..255 |-> [Name |-> <<>>, Score |-> <<>>]],
        !.players = [i \in 1..255 |-> [Ping |-> i, PL |-> 0, Team |-> i % 2,
                                       Name |-> <<>>, Score |-> <<>>]]]

\* Eight strings of 255 bytes: a reply of 2060 bytes, more than the read buffer.
ReplyLong ==
    LET str == [i \in 1..255 |-> 97] IN
    [ReplyEmpty EXCEPT !.game = str, !.version = str, !.name = str, !.mod = str,
                       !.serverType = str, !.mission = str, !.info = str,
                       !.teamScoreHeader = str]

\* Strings of 2028 bytes in all: a reply of exactly 2048 bytes, the read buffer.
ReplyBufferFull ==
    LET str == [i \in 1..255 |-> 97] IN
    [ReplyEmpty EXCEPT !.game = str, !.version = str, !.name = str, !.mod = str,
                       !.serverType = str, !.mission = str, !.info = str,
                       !.teamScoreHeader = [i \in 1..243 |-> 98]]

\* The key with its two bytes exchanged.
SwapBytes(k) == (k % 256) * 256 + k \div 256

\* What ReadFromUDP may return to a GameServer.Query that sent key k: the
\* datagram, where it came from, and how it was made from record rec.
GameDeliveriesFor(k) ==
    LET a   == GameReplyBytes(ReplyA, k)
        dlv(src, bytes, kind, rec) ==
            [src |-> src, bytes |-> bytes, kind |-> kind, rec |-> rec, key |-> k]
    IN  {dlv(Target, GameReplyBytes(r, k), "reply", r) :
            r \in {ReplyEmpty, ReplyA, ReplyB, ReplyFull, ReplyBufferFull, ReplyLong}}
        \cup {dlv(Target, SubSeq(a, 1, n), "cut", ReplyA) :
                n \in {0, 3} \cup (MinReplyLen .. (Len(a) - 1))}
        \cup {dlv(Target, SubSeq(GameReplyBytes(ReplyEmpty, k), 1, n),
                  "cut", ReplyEmpty) : n \in 0..(MinReplyLen - 1)}
        \cup {dlv(Target, GameReplyBytes(r, k) \o t, "trailing", r) :
                r \in {ReplyEmpty, ReplyA}, t \in {<<0>>, <<1, 0>>}}
        \cup {dlv(Target, GameReplyBytes(ReplyBufferFull, k) \o <<0>>, "trailing",
                  ReplyBufferFull)}
        \cup {dlv(Target, [a EXCEPT ![1] = 98], "opcode", ReplyA),
              dlv(Target, [a EXCEPT ![4] = 99], "echo", ReplyA)}
        \cup {[dlv(Target, GameReplyBytes(r, k2), "key", r) EXCEPT !.key = k2] :
                r \in {ReplyA, ReplyEmpty}, k2 \in (Keys \cup {SwapBytes(k)}) \ {k}}
        \cup {dlv(src, GameReplyBytes(r, k), "source", r) :
                r \in {ReplyA, ReplyEmpty}, src \in OtherSources}

GameDeliveries == {<<k, GameDeliveriesFor(k)>> : k \in Keys}

NoDelivery ==
    [src |-> Target, len |-> 0, kind |-> "none", rec |-> ReplyEmpty, key |-> 0, sent |-> 0,
     dirty |-> FALSE]

\* What the history variables gIn and mIn keep of a datagram delivered to a
\* Query that sent key k: its source, its length, what the test server made it
\* from, the key it carries, the key that was sent, and (for a GameServer)
\* whether the entity held decoded values of an earlier Query when this Query
\* began.
Delivered(d, k, dirty) ==
    [src |-> d.src, len |-> Len(d.bytes), kind |-> d.kind, rec |-> d.rec,
     key |-> d.key, sent |-> k, dirty |-> dirty]

\* n, addr, err := c.ReadFromUDP(readBuffer): the first len(readBuffer) bytes.
Received(bytes, size) == SubSeq(bytes, 1, Min(Len(bytes), size))

----------------------------------------------------------------------------
(* sync.RWMutex *)

\* A faulty variant of CanLock: Lock that does not wait for the holder.
CanLockAnyTime(lock) == TRUE

\* mutex.Lock() returns once no writer holds the lock (readers hold it only
\* within an accessor, which is one step here).
CanLock(lock) == lock = "free"

\* A faulty variant of CanRLock: a reader that does not wait for the writer.
CanRLockAnyTime(lock) == TRUE

\* mutex.RLock() returns once no writer holds the lock.
CanRLock(lock) == lock = "free"

\* A return that leaves the mutex locked.
UnlockSkipped(lock) == lock

\* The deferred mutex.Unlock() (game.go:206, part_002:101, master.go:68).
Unlock(lock) == "free"

\* net.DialUDP without an error: a socket, open (game.go:216,
\* part_002:108).
DialUDP == "open"

\* A deferred function that does not call c.Close().
CloseSkipped(conn) == conn

\* c.Close() in the deferred function (game.go:221-226, part_002:113-118;
\* master.go:85-90 calls it too and panics if it returns an error).
Close(conn) == "closed"

Idle ==
    [pc |-> "idle", key |-> 0, req |-> <<>>, sends |-> 0, p |-> 0,
     pingCalculated |-> FALSE, dirty |-> FALSE]

\* A request with the key low byte first.
GameRequestLittleEndian(key) == <<98, key % 256, key \div 256>>

\* sendBuffer of GameServer.Query: 0x62, then the key by
\* binary.BigEndian.PutUint16 (game.go:228-232).
GameRequest(key) == <<98, key \div 256, key % 256>>

\* sendBuffer of MasterServer.Query: version, type, packet number, packet
\* total, the key by binary.BigEndian.PutUint16, two ID bytes
\* (part_002:120-132).
MasterRequest(key) == <<16, 3, 255, 0, key \div 256, key % 256, 0, 0>>

----------------------------------------------------------------------------
(* GameServer.Query and the accessors, as actions *)

GameCallStarts(c) ==
    /\ focus = "game"
    /\ nQueries < MaxQueries
    /\ gCall[c].pc = "idle"
    /\ nQueries' = nQueries + 1

\* The addresses resolved, the call waits in g.mutex.Lock() for the Query that
\* holds the lock (game.go:205).
GameLockWaits(c) ==
    /\ GameCallStarts(c)
    /\ ~CanLock(gLock)
    /\ gCall' = [gCall EXCEPT ![c].pc = "locking"]
    /\ UNCHANGED <<g, gLock, gRet, gIn, gOff, gSock, gLat>>
    /\ UNCHANGED <<focus, masterVars, obs, auxVars>>

\* g.mutex.Lock() returns, at once or after a wait.
GameLockTaken(c) ==
    /\ CanLock(gLock)
    /\ \/ GameCallStarts(c)
       \/ /\ focus = "game"
          /\ gCall[c].pc = "locking"
          /\ UNCHANGED nQueries

\* net.ResolveUDPAddr fails for localAddress or g.address: Query returns
\* before it takes the lock (game.go:193-203).  gRet, gIn and gOff follow the
\* Query that holds the lock while there is one.
GameResolveError(c) ==
    /\ GameCallStarts(c)
    /\ IF gLock = "free"
       THEN gRet' = "ResolutionError" /\ gIn' = NoDelivery /\ gOff' = 0
       ELSE UNCHANGED <<gRet, gIn, gOff>>
    /\ UNCHANGED <<g, gLock, gCall, gSock, gLat>>
    /\ UNCHANGED <<focus, masterVars, obs, auxVars>>

\* Lock, the reset, then net.DialUDP fails (game.go:205-219).
GameDialError(c) ==
    /\ GameLockTaken(c)
    /\ g' = GameReset(g)
    /\ gCall' = [gCall EXCEPT ![c] = Idle]
    /\ gRet' = "SocketError"
    /\ gIn' = NoDelivery
    /\ gOff' = 0
    /\ UNCHANGED <<gLock, gSock, gLat>>
    /\ UNCHANGED <<focus, masterVars, obs, auxVars>>

\* Lock, the reset, the dial, queryTime, then c.Write or c.SetDeadline fails
\* (game.go:205-244).
GameSendError(c) ==
    /\ GameLockTaken(c)
    /\ g' = [GameReset(g) EXCEPT !.queryTime = nQueries']
    /\ gCall' = [gCall EXCEPT ![c] = Idle]
    /\ gRet' = "SendError"
    /\ gIn' = NoDelivery
    /\ gOff' = 0
    /\ gSock' = Close(DialUDP)
    /\ UNCHANGED <<gLock, gLat>>
    /\ UNCHANGED <<focus, masterVars, obs, auxVars>>

\* Lock, the reset, the dial, the key, queryTime, the request sent: the call
\* now blocks in ReadFromUDP, holding the lock (game.go:205-245).
GameQuerySend(c, k) ==
    /\ GameLockTaken(c)
    /\ gLock' = c
    /\ g' = [GameReset(g) EXCEPT !.queryTime = nQueries']
    /\ gCall' = [gCall EXCEPT ![c] = [Idle EXCEPT !.pc = "reading", !.key = k,
                                                  !.req = GameRequest(k),
                                                  !.sends = Idle.sends + 1,
                                                  !.dirty = GameDirty(g)]]
    /\ gRet' = "pending"
    /\ gSock' = DialUDP
    /\ gIn' = NoDelivery
    /\ gOff' = 0
    /\ UNCHANGED gLat
    /\ UNCHANGED <<focus, masterVars, obs, auxVars>>

\* ReadFromUDP returns an error, the deadline having passed (game.go:245-248);
\* the deferred Unlock runs.
GameReadTimeout(c) ==
    /\ gCall[c].pc = "reading"
    /\ gLock' = Unlock(gLock)
    /\ gCall' = [gCall EXCEPT ![c] = Idle]
    /\ gRet' = "Timeout"
    /\ gSock' = Close(gSock)
    /\ UNCHANGED <<nQueries, g, gIn, gOff, gLat>>
    /\ UNCHANGED <<focus, masterVars, obs, auxVars>>

\* ReadFromUDP returns a datagram: the rest of Query (game.go:245-418) and the
\* deferred Unlock.
GameReceive(c, d, elapsed) ==
    /\ gCall[c].pc = "reading"
    /\ LET r == GameAfterRead(g, Received(d.bytes, ReadBufferSize), d.src,
                              gCall[c].key, elapsed)
       IN  /\ g' = r.s
           /\ gRet' = r.err
           /\ gOff' = r.off
    /\ gIn' = Delivered(d, gCall[c].key, gCall[c].dirty)
    /\ gLat' = elapsed
    /\ gSock' = Close(gSock)
    /\ gLock' = Unlock(gLock)
    /\ gCall' = [gCall EXCEPT ![c] = Idle]
    /\ UNCHANGED nQueries
    /\ UNCHANGED <<focus, masterVars, obs, auxVars>>

\* What an accessor leaves in obs: that one has returned, and whether any has
\* returned while a Query held the write lock.
Observe(lock) ==
    [reads |-> TRUE, mid |-> obs.mid \/ lock # "free"]

\* Any accessor of GameServer: RLock, return the field (a copy of a list),
\* RUnlock (game.go:68-184).  The accessors differ only in the field.
GameAccessor ==
    /\ focus = "game"
    /\ CanRLock(gLock)
    /\ GameAccessors \subseteq DOMAIN g
    /\ obs' = Observe(gLock)
    /\ UNCHANGED <<focus, nQueries, gameVars, masterVars, auxVars>>

\* The datagrams that may arrive while caller c is blocked in ReadFromUDP.
GameInputs(c) ==
    IF gCall[c].pc = "reading"
    THEN (CHOOSE p \in GameDeliveries : p[1] = gCall[c].key)[2]
    ELSE {}

GameNext ==
    \/ \E c \in Callers : GameResolveError(c)
    \/ \E c \in Callers : GameLockWaits(c)
    \/ \E c \in Callers : GameDialError(c)
    \/ \E c \in Callers : GameSendError(c)
    \/ \E c \in Callers, k \in Keys : GameQuerySend(c, k)
    \/ \E c \in Callers : GameReadTimeout(c)
    \/ \E c \in Callers : \E d \in GameInputs(c), e \in Latencies : GameReceive(c, d, e)
    \/ GameAccessor

----------------------------------------------------------------------------
(* unnamed/part_002: the MasterServer struct and MasterServer.Query *)

\* NewMasterServer: every field but the address is zero.
NewMasterServer ==
    [ip |-> <<>>, port |-> 0, name |-> <<>>, motd |-> <<>>, serverCount |-> 0,
     servers |-> <<>>, ping |-> 0, queryTime |-> 0, totalPackets |-> 0]

\* The read accessors of MasterServer (part_002:43-79).
MasterAccessors == {"ping", "queryTime", "name", "motd", "serverCount", "servers"}

\* recvBuf := make([]byte, 1024)
RecvBufSize == 1024

\* if packetNumber < 1 || packetNumber > 5, and the same for packetTotal
MaxPackets == 5

\* The reset under the lock (part_002:103-106).
MasterReset(s) ==
    [s EXCEPT !.ip = Target.ip, !.port = Target.port,
              !.serverCount = 0, !.servers = <<>>]

\* The decimal digits of n, as fmt prints them.
RECURSIVE Decimal(_)
Decimal(n) == IF n < 10 THEN <<48 + n>> ELSE Decimal(n \div 10) \o <<48 + (n % 10)>>

\* fmt.Sprintf("%s:%d", ip.String(), port)
ServerText(ip, port) ==
    Decimal(ip[1]) \o <<46>> \o Decimal(ip[2]) \o <<46>> \o Decimal(ip[3])
    \o <<46>> \o Decimal(ip[4]) \o <<58>> \o Decimal(port)

\* packetNumber, err = reader.ReadByte(); if packetNumber < 1 || packetNumber > 5
PacketNumber(c) ==
    LET r == ReadByte(c.buf, c.off) IN
    IF r.err # "none" THEN [c EXCEPT !.err = r.err, !.off = r.off]
    ELSE IF r.b < 1 \/ r.b > MaxPackets
         THEN [c EXCEPT !.err = "InvalidPacketNumber", !.off = r.off]
         ELSE [c EXCEPT !.packetNumber = r.b, !.off = r.off]

\* A PacketTotal without the upper limit.
PacketTotalUnbounded(c) ==
    LET r == ReadByte(c.buf, c.off) IN
    IF r.err # "none" THEN [c EXCEPT !.err = r.err, !.off = r.off]
    ELSE IF r.b < 1
         THEN [c EXCEPT !.err = "InvalidPacketTotal", !.off = r.off]
         ELSE [c EXCEPT !.packetTotal = r.b, !.off = r.off]

\* packetTotal, err = reader.ReadByte(); if packetTotal < 1 || packetTotal > 5
PacketTotal(c) ==
    LET r == ReadByte(c.buf, c.off) IN
    IF r.err # "none" THEN [c EXCEPT !.err = r.err, !.off = r.off]
    ELSE IF r.b < 1 \/ r.b > MaxPackets
         THEN [c EXCEPT !.err = "InvalidPacketTotal", !.off = r.off]
         ELSE [c EXCEPT !.packetTotal = r.b, !.off = r.off]

\* A loop body without the comparison of number and total.
PacketOrderUnchecked(c) == c

\* if packetNumber > packetTotal
PacketOrder(c) ==
    IF c.packetNumber > c.packetTotal THEN [c EXCEPT !.err = "PacketOrderError"] ELSE c

\* A SetTotalPackets that never lowers the expected total.
SetTotalPacketsMax(c) ==
    [c EXCEPT !.s = [c.s EXCEPT !.totalPackets =
                        IF c.packetTotal > c.s.totalPackets THEN c.packetTotal
                        ELSE c.s.totalPackets]]

\* m.totalPackets = int(packetTotal)
SetTotalPackets(c) == [c EXCEPT !.s = [c.s EXCEPT !.totalPackets = c.packetTotal]]

\* A faulty variant of ServerCount: the total overwritten, not added to.
ServerCountOverwritten(c) ==
    LET r == ReadUint16BE(c.buf, c.off) IN
    IF r.err # "none" THEN [c EXCEPT !.err = r.err, !.off = r.off]
    ELSE [c EXCEPT !.s = [c.s EXCEPT !.serverCount = r.v],
                   !.serverCount = r.v, !.off = r.off]

\* binary.Read(reader, binary.BigEndian, &serverCount); m.serverCount += serverCount
ServerCount(c) ==
    LET r == ReadUint16BE(c.buf, c.off) IN
    IF r.err # "none" THEN [c EXCEPT !.err = r.err, !.off = r.off]
    ELSE [c EXCEPT !.s = [c.s EXCEPT !.serverCount = (@ + r.v) % 65536],
                   !.serverCount = r.v, !.off = r.off]

\* One turn of the entry loop: ReadAddressPort, append (part_002:255-260).
ReadServer(c) ==
    LET a == ReadAddressPort(c.buf, c.off) IN
    IF a.err # "none" THEN [c EXCEPT !.err = a.err, !.off = a.off]
    ELSE [c EXCEPT !.s = [c.s EXCEPT !.servers = Append(@, ServerText(a.ip, a.port))],
                   !.off = a.off]

\* for i := uint16(0); i < serverCount; i++: the turns with i in from..to-1, in
\* order, none after a return; i never exceeds 65534, so i++ never wraps.
RECURSIVE ReadServers(_, _, _)
ReadServers(c, from, to) ==
    IF ~(from < to) \/ c.err # "none" THEN c
    ELSE IF to - from = 1 THEN ReadServer(c)
    ELSE LET mid == (from + to) \div 2 IN
         ReadServers(ReadServers(c, from, mid), mid, to)

\* A loop body that assigns m.totalPackets before it compares the key.
MasterDecodeTotalBeforeKey(s, buf, key) ==
    LET c0  == [s |-> s, buf |-> buf, off |-> 0, err |-> "none",
                packetNumber |-> 0, packetTotal |-> 0, serverCount |-> 0]
        c1  == ExpectByte(c0, 16, "ProtocolMismatch")
        c2  == Step(c1, LAMBDA c: ExpectByte(c, 6, "ProtocolMismatch"))
        c3  == Step(c2, PacketNumber)
        c4  == Step(c3, PacketTotal)
        c5  == Step(c4, PacketOrder)
        c6  == Step(c5, SetTotalPackets)
        c7  == Step(c6, LAMBDA c: ExpectKey(c, key))
        c8  == Step(c7, LAMBDA c: ExpectByte(c, 0, "ProtocolMismatch"))
        c9  == Step(c8, LAMBDA c: ExpectByte(c, 102, "ProtocolMismatch"))
        c10 == Step(c9, LAMBDA c: StringField(c, "name"))
        c11 == Step(c10, LAMBDA c: StringField(c, "motd"))
        c12 == Step(c11, ServerCount)
        c13 == Step(c12, LAMBDA c: ReadServers(c, 0, c.serverCount))
    IN  Step(c13, NoLeftOver)

\* One packet, from bytes.NewReader to the end of the loop body
\* (part_002:169-265).
MasterDecode(s, buf, key) ==
    LET c0  == [s |-> s, buf |-> buf, off |-> 0, err |-> "none",
                packetNumber |-> 0, packetTotal |-> 0, serverCount |-> 0]
        c1  == ExpectByte(c0, 16, "ProtocolMismatch")
        c2  == Step(c1, LAMBDA c: ExpectByte(c, 6, "ProtocolMismatch"))
        c3  == Step(c2, PacketNumber)
        c4  == Step(c3, PacketTotal)
        c5  == Step(c4, PacketOrder)
        c6  == Step(c5, LAMBDA c: ExpectKey(c, key))
        c7  == Step(c6, SetTotalPackets)
        c8  == Step(c7, LAMBDA c: ExpectByte(c, 0, "ProtocolMismatch"))
        c9  == Step(c8, LAMBDA c: ExpectByte(c, 102, "ProtocolMismatch"))
        c10 == Step(c9, LAMBDA c: StringField(c, "name"))
        c11 == Step(c10, LAMBDA c: StringField(c, "motd"))
        c12 == Step(c11, ServerCount)
        c13 == Step(c12, LAMBDA c: ReadServers(c, 0, c.serverCount))
    IN  Step(c13, NoLeftOver)

\* One turn of the receive loop from the return of ReadFromUDP to the end of
\* the loop body (part_002:160-265).
MasterAfterRead(s, rx, addr, key, pingCalculated, elapsed) ==
    IF ~SourceMatches(addr, Target)
    THEN [s |-> s, buf |-> rx, off |-> 0, err |-> "SourceMismatch"]
    ELSE MasterDecode(IF pingCalculated THEN s ELSE [s EXCEPT !.ping = elapsed],
                      rx, key)

----------------------------------------------------------------------------
(* The master server's side, as the test of unnamed/part_001 plays it.      *)

\* One directory entry on the wire: tag 6, the address, the port low byte first.
EntryBytes(e) == <<6>> \o e.ip \o <<e.port % 256, e.port \div 256>>

RECURSIVE EntriesBytes(_)
EntriesBytes(es) ==
    IF Len(es) = 0 THEN <<>>
    ELSE IF Len(es) = 1 THEN EntryBytes(es[1])
    ELSE LET h == Len(es) \div 2 IN
         EntriesBytes(SubSeq(es, 1, h)) \o EntriesBytes(SubSeq(es, h + 1, Len(es)))

\* Packet r of the answer to a request with key k, announcing count entries.
MasterPacketBytesCount(r, k, count) ==
    <<16, 6, r.number, r.total, k \div 256, k % 256, 0, 102>>
    \o PStr(r.name) \o PStr(r.motd)
    \o <<count \div 256, count % 256>> \o EntriesBytes(r.servers)

MasterPacketBytes(r, k) == MasterPacketBytesCount(r, k, Len(r.servers))

ServerA == [ip |-> <<12, 13, 14, 15>>, port |-> 28001]
ServerB == [ip |-> <<22, 23, 24, 25>>, port |-> 28001]
ServerC == [ip |-> <<67, 222, 138, 46>>, port |-> 256]
ServerD == [ip |-> <<255, 0, 255, 100>>, port |-> 65535]

Packet(number, total, name, motd, servers) ==
    [number |-> number, total |-> total, name |-> name, motd |-> motd,
     servers |-> servers]

Packet1of1 == Packet(1, 1, <<84, 77>>, <<104, 105>>, <<ServerA>>)
Packet1of2 == Packet(1, 2, <<84>>, <<77>>, <<ServerA, ServerB>>)
Packet2of2 == Packet(2, 2, <<84>>, <<77>>, <<ServerC>>)
Packet1of3 == Packet(1, 3, <<78>>, <<>>, <<>>)
Packet5of5 == Packet(5, 5, <<>>, <<79>>, <<ServerD>>)

\* Two strings of 255 bytes and 73 entries: 1033 bytes, more than the receive
\* buffer.
PacketLong ==
    Packet(1, 1, [i \in 1..255 |-> 97], [i \in 1..255 |-> 98], [i \in 1..73 |-> ServerA])

\* What ReadFromUDP may return to a MasterServer.Query that sent key k.
MasterDeliveriesFor(k) ==
    LET b   == MasterPacketBytes(Packet1of2, k)
        dlv(src, bytes, kind, rec) ==
            [src |-> src, bytes |-> bytes, kind |-> kind, rec |-> rec, key |-> k]
    IN  {dlv(Target, MasterPacketBytes(r, k), "reply", r) :
            r \in {Packet1of1, Packet1of2, Packet2of2, Packet1of3, Packet5of5,
                   PacketLong}}
        \cup {dlv(Target, SubSeq(b, 1, n), "cut", Packet1of2) :
                n \in {0, 1, 2, 3, 4, 5, 7, 8, 10, 12, 13, 15, 22, 27}}
        \cup {dlv(Target, MasterPacketBytes(r, k) \o t, "trailing", r) :
                r \in {Packet1of1, Packet2of2}, t \in {<<0>>}}
        \cup {dlv(Target, [b EXCEPT ![1] = 17], "version", Packet1of2),
              dlv(Target, [b EXCEPT ![2] = 3], "type", Packet1of2),
              dlv(Target, [b EXCEPT ![7] = 1], "marker", Packet1of2),
              dlv(Target, [b EXCEPT ![8] = 6], "marker", Packet1of2)}
        \cup {dlv(Target, MasterPacketBytes([Packet1of2 EXCEPT !.number = n], k),
                  "number", Packet1of2) : n \in {0, 6}}
        \cup {dlv(Target, MasterPacketBytes([Packet1of2 EXCEPT !.total = n], k),
                  "total", Packet1of2) : n \in {0, 6}}
        \cup {dlv(Target, MasterPacketBytes([Packet2of2 EXCEPT !.total = 1], k),
                  "order", Packet2of2)}
        \cup {[dlv(Target, MasterPacketBytes(r, k2), "key", r) EXCEPT !.key = k2] :
                r \in {Packet1of1, Packet2of2}, k2 \in (Keys \cup {SwapBytes(k)}) \ {k}}
        \cup {dlv(Target, [b EXCEPT ![Len(b) - 6] = 4], "tag", Packet1of2),
              dlv(Target, [b EXCEPT ![Len(b) - 13] = 7], "tag", Packet1of2)}
        \cup {dlv(Target, MasterPacketBytesCount(Packet1of2, k, n), "count", Packet1of2) :
                n \in {1, 3, 65535}}
        \cup {dlv(src, MasterPacketBytes(r, k), "source", r) :
                r \in {Packet1of1, Packet2of2}, src \in OtherSources}

MasterDeliveries == {<<k, MasterDeliveriesFor(k)>> : k \in Keys}

----------------------------------------------------------------------------
(* MasterServer.Query and the accessors, as actions *)

MasterCallStarts(c) ==
    /\ focus = "master"
    /\ nQueries < MaxQueries
    /\ mCall[c].pc = "idle"
    /\ nQueries' = nQueries + 1

\* The addresses resolved, the call waits in m.mutex.Lock() (part_002:100).
MasterLockWaits(c) ==
    /\ MasterCallStarts(c)
    /\ ~CanLock(mLock)
    /\ mCall' = [mCall EXCEPT ![c].pc = "locking"]
    /\ UNCHANGED <<m, mLock, mRet, mIn, mOff, mSock, mSum>>
    /\ UNCHANGED <<focus, gameVars, obs, auxVars>>

\* m.mutex.Lock() returns, at once or after a wait.
MasterLockTaken(c) ==
    /\ CanLock(mLock)
    /\ \/ MasterCallStarts(c)
       \/ /\ focus = "master"
          /\ mCall[c].pc = "locking"
          /\ UNCHANGED nQueries

\* net.ResolveUDPAddr fails: Query returns before it takes the lock
\* (part_002:88-98).
MasterResolveError(c) ==
    /\ MasterCallStarts(c)
    /\ IF mLock = "free"
       THEN mRet' = "ResolutionError" /\ mIn' = <<>> /\ mOff' = 0
       ELSE UNCHANGED <<mRet, mIn, mOff>>
    /\ UNCHANGED <<m, mLock, mCall, mSock, mSum>>
    /\ UNCHANGED <<focus, gameVars, obs, auxVars>>

\* Lock, the reset, then net.DialUDP fails (part_002:100-111).
MasterDialError(c) ==
    /\ MasterLockTaken(c)
    /\ m' = MasterReset(m)
    /\ mCall' = [mCall EXCEPT ![c] = Idle]
    /\ mRet' = "SocketError"
    /\ mIn' = <<>>
    /\ mOff' = 0
    /\ mSum' = 0
    /\ UNCHANGED <<mLock, mSock>>
    /\ UNCHANGED <<focus, gameVars, obs, auxVars>>

\* Lock, the reset, the dial, queryTime, then c.Write fails (part_002:100-139).
MasterSendError(c) ==
    /\ MasterLockTaken(c)
    /\ m' = [MasterReset(m) EXCEPT !.queryTime = nQueries']
    /\ mCall' = [mCall EXCEPT ![c] = Idle]
    /\ mRet' = "SendError"
    /\ mIn' = <<>>
    /\ mOff' = 0
    /\ mSock' = Close(DialUDP)
    /\ mSum' = 0
    /\ UNCHANGED mLock
    /\ UNCHANGED <<focus, gameVars, obs, auxVars>>

\* Lock, the reset, the dial, the key, queryTime, the request sent,
\* m.totalPackets = 1, p = 0: the call blocks in the first ReadFromUDP
\* (part_002:100-155).
MasterQuerySend(c, k) ==
    /\ MasterLockTaken(c)
    /\ mLock' = c
    /\ m' = [MasterReset(m) EXCEPT !.queryTime = nQueries', !.totalPackets = 1]
    /\ mCall' = [mCall EXCEPT ![c] = [Idle EXCEPT !.pc = "reading", !.key = k,
                                                  !.req = MasterRequest(k),
                                                  !.sends = Idle.sends + 1]]
    /\ mRet' = "pending"
    /\ mSock' = DialUDP
    /\ mSum' = 0
    /\ mIn' = <<>>
    /\ mOff' = 0
    /\ UNCHANGED <<focus, gameVars, obs, auxVars>>

\* c.SetDeadline or ReadFromUDP returns an error in some turn of the loop
\* (part_002:151-158); the deferred Unlock runs.
MasterReadTimeout(c) ==
    /\ mCall[c].pc = "reading"
    /\ mLock' = Unlock(mLock)
    /\ mCall' = [mCall EXCEPT ![c] = Idle]
    /\ mRet' = "Timeout"
    /\ mSock' = Close(mSock)
    /\ UNCHANGED <<nQueries, m, mIn, mOff, mSum>>
    /\ UNCHANGED <<focus, gameVars, obs, auxVars>>

\* A loop that skips a datagram from another source and reads on.
LoopContinuesAfterStray(err, p, totalPackets) ==
    err \in {"none", "SourceMismatch"} /\ p < totalPackets

\* The loop reads again when the body has returned no error (every error is
\* a return, part_002:156-264) and p < m.totalPackets after p++
\* (part_002:150).
LoopContinues(err, p, totalPackets) == err = "none" /\ p < totalPackets

\* ReadFromUDP returns a datagram: the loop body (part_002:155-265), then
\* p++ and either the next ReadFromUDP or the return (part_002:150, 268).
MasterReceive(c, d, elapsed) ==
    /\ mCall[c].pc = "reading"
    /\ LET r == MasterAfterRead(m, Received(d.bytes, RecvBufSize), d.src,
                                mCall[c].key, mCall[c].pingCalculated, elapsed)
           p == mCall[c].p + 1
       IN  /\ m' = r.s
           /\ mOff' = r.off
           /\ mSum' = mSum + (IF r.err = "SourceMismatch" THEN 0 ELSE r.serverCount)
           /\ IF LoopContinues(r.err, p, r.s.totalPackets)
              THEN /\ mCall' = [mCall EXCEPT ![c].p = p, ![c].pingCalculated = TRUE]
                   /\ UNCHANGED <<mLock, mRet, mSock>>
              ELSE /\ mCall' = [mCall EXCEPT ![c] = Idle]
                   /\ mSock' = Close(mSock)
                   /\ mLock' = Unlock(mLock)
                   /\ mRet' = r.err
    /\ mIn' = Append(mIn, Delivered(d, mCall[c].key, mCall[c].dirty))
    /\ UNCHANGED nQueries
    /\ UNCHANGED <<focus, gameVars, obs, auxVars>>

\* Any accessor of MasterServer: RLock, return the field (a copy of the list),
\* RUnlock (part_002:43-79).
MasterAccessor ==
    /\ focus = "master"
    /\ CanRLock(mLock)
    /\ MasterAccessors \subseteq DOMAIN m
    /\ obs' = Observe(mLock)
    /\ UNCHANGED <<focus, nQueries, gameVars, masterVars, auxVars>>

\* The datagrams that may arrive while caller c is blocked in ReadFromUDP.
MasterInputs(c) ==
    IF mCall[c].pc = "reading"
    THEN (CHOOSE p \in MasterDeliveries : p[1] = mCall[c].key)[2]
    ELSE {}

\* time.Since(m.queryTime) is read only while pingCalculated is false.
MasterLatencies(c) ==
    IF mCall[c].pingCalculated THEN {0} ELSE Latencies

MasterNext ==
    \/ \E c \in Callers : MasterResolveError(c)
    \/ \E c \in Callers : MasterLockWaits(c)
    \/ \E c \in Callers : MasterDialError(c)
    \/ \E c \in Callers : MasterSendError(c)
    \/ \E c \in Callers, k \in Keys : MasterQuerySend(c, k)
    \/ \E c \in Callers : MasterReadTimeout(c)
    \/ \E c \in Callers : \E d \in MasterInputs(c), e \in MasterLatencies(c) :
            MasterReceive(c, d, e)
    \/ MasterAccessor

----------------------------------------------------------------------------
(* The list accessors and the slices they hand out.  A slice is the index   *)
(* of its backing array on the heap; 0 is the nil slice.                     *)

\* Backing arrays allocated per behaviour.
MaxArrays == 4

\* The accessors that return a list, by the file that defines them.
ListAccessors ==
    {"game.go:Teams", "game.go:Players", "part_002:Servers", "master.go:Servers"}

\* teams = make([]Team, len(g.teams)); copy(teams, g.teams) (game.go:173-174,
\* 181-182, part_002:76-77), against return m.servers (master.go:64).
ReturnsCopy(accessor) == accessor # "master.go:Servers"

\* The lists a Query may decode, and the value a caller may write into one.
ListContents == {<<>>, <<1>>, <<1, 2>>}
CallerValues == {9}

\* The elements of slice a.
Content(arrays, a) == IF a = 0 THEN <<>> ELSE arrays[a]

NewLists(accessor) ==
    [accessor |-> accessor, arrays |-> <<>>, field |-> 0, ret |-> 0,
     decoded |-> <<>>, held |-> <<>>]

\* A successful Query: the field set to nil by the reset, then one append per
\* decoded record, into arrays no earlier slice shares (game.go:213-214, 380,
\* 411; part_002:106, 260; master.go:79, 217).
ListQuery(content) ==
    /\ focus = "lists"
    /\ Len(lists.arrays) < MaxArrays
    /\ lists' = IF content = <<>>
                THEN [lists EXCEPT !.field = 0, !.decoded = content]
                ELSE [lists EXCEPT !.arrays = Append(@, content),
                                   !.field = Len(lists.arrays) + 1,
                                   !.decoded = content]
    /\ UNCHANGED <<focus, nQueries, gameVars, masterVars, obs, codec>>

\* The accessor returns to the caller: a fresh slice with the elements copied,
\* or the field itself.
ListAccessor ==
    /\ focus = "lists"
    /\ IF ReturnsCopy(lists.accessor)
       THEN /\ Len(lists.arrays) < MaxArrays
            /\ lists' = [lists EXCEPT
                            !.arrays = Append(@, Content(lists.arrays, lists.field)),
                            !.ret = Len(lists.arrays) + 1,
                            !.held = Content(lists.arrays, lists.field)]
       ELSE lists' = [lists EXCEPT !.ret = lists.field,
                                   !.held = Content(lists.arrays, lists.field)]
    /\ UNCHANGED <<focus, nQueries, gameVars, masterVars, obs, codec>>

\* The caller assigns to an element of the list it was given: list[i] = v.
CallerWrites(i, v) ==
    /\ focus = "lists"
    /\ lists.ret # 0
    /\ i \in 1..Len(lists.arrays[lists.ret])
    /\ lists' = [lists EXCEPT !.arrays[lists.ret][i] = v, !.held[i] = v]
    /\ UNCHANGED <<focus, nQueries, gameVars, masterVars, obs, codec>>

ListNext ==
    \/ \E content \in ListContents : ListQuery(content)
    \/ ListAccessor
    \/ \E i \in 1..2, v \in CallerValues : CallerWrites(i, v)

----------------------------------------------------------------------------
(* The wire codec used on its own, as utils_test.go uses it: a value is     *)
(* written to a bytes.Buffer that may hold earlier output, and read back    *)
(* by a bytes.Reader placed after that output; or bytes made by hand are    *)
(* read.                                                                    *)

\* The longest string written.
MaxStringLen == 257

\* A string of n bytes; byte values 0 and 6 and 255 occur among them.
StringOfLen(n) == [i \in 1..n |-> (i * 37 + n) % 256]

\* "Testing" (utils_test.go:26, 38).
Testing == <<84, 101, 115, 116, 105, 110, 103>>

CodecStrings == {StringOfLen(n) : n \in 0..MaxStringLen} \cup {Testing}

\* What the buffer holds before the write.
CodecPrefixes == {<<>>, <<7, 65>>}

\* net.IP values: 4-byte addresses, and others (nil, 3 and 5 bytes, and the
\* 16-byte form net.IPv4 returns before To4).
CodecAddresses ==
    {<<12, 13, 14, 15>>, <<0, 0, 0, 0>>, <<255, 255, 255, 255>>, <<6, 0, 6, 1>>}
    \cup {<<>>, <<12, 13, 14>>, <<12, 13, 14, 15, 16>>,
          <<0, 0, 0, 0, 0, 0, 0, 0, 0, 0, 255, 255, 12, 13, 14, 15>>}

CodecPorts == {lo + 256 * hi : lo \in {0, 1, 97, 255}, hi \in {0, 1, 109, 255}}

\* Bytes made by hand for ReadAddressPort: every first byte, and short inputs.
CodecBytes ==
    {<<b, 12, 13, 14, 15, 97, 109>> : b \in 0..255}
    \cup {<<>>, <<6>>, <<6, 12>>, <<6, 12, 13, 14, 15>>, <<6, 12, 13, 14, 15, 97>>,
          <<5>>, <<7, 12>>}

NewCodec(op, prefix, str, ip, port) ==
    [op |-> op, stage |-> "new", prefix |-> prefix, str |-> str, ip |-> ip,
     port |-> port, buf |-> prefix, werr |-> "none",
     rstr |-> <<>>, rip |-> <<>>, rport |-> 0, rerr |-> "none", roff |-> 0]

CodecInputs ==
    {NewCodec("string", x, str, <<>>, 0) : x \in CodecPrefixes, str \in CodecStrings}
    \cup {NewCodec("address", x, <<>>, ip, port) :
            x \in CodecPrefixes, ip \in CodecAddresses, port \in CodecPorts}
    \cup {NewCodec("bytes", <<>>, b, <<>>, 0) : b \in CodecBytes}

CodecWritePascalString ==
    /\ focus = "codec"
    /\ codec.op = "string" /\ codec.stage = "new"
    /\ LET w == WritePascalString(codec.buf, codec.str) IN
        codec' = [codec EXCEPT !.stage = "written", !.buf = w.buf, !.werr = w.err]
    /\ UNCHANGED <<focus, nQueries, gameVars, masterVars, obs, lists>>

CodecReadPascalString ==
    /\ focus = "codec"
    /\ codec.op = "string" /\ codec.stage = "written" /\ codec.werr = "none"
    /\ LET r == ReadPascalString(codec.buf, Len(codec.prefix)) IN
        codec' = [codec EXCEPT !.stage = "read", !.rstr = r.str, !.rerr = r.err,
                               !.roff = r.off]
    /\ UNCHANGED <<focus, nQueries, gameVars, masterVars, obs, lists>>

CodecWriteAddressPort ==
    /\ focus = "codec"
    /\ codec.op = "address" /\ codec.stage = "new"
    /\ LET w == WriteAddressPort(codec.buf, codec.ip, codec.port) IN
        codec' = [codec EXCEPT !.stage = "written", !.buf = w.buf, !.werr = w.err]
    /\ UNCHANGED <<focus, nQueries, gameVars, masterVars, obs, lists>>

CodecReadAddressPort ==
    /\ focus = "codec"
    /\ codec.op = "address" /\ codec.stage = "written" /\ codec.werr = "none"
    /\ LET r == ReadAddressPort(codec.buf, Len(codec.prefix)) IN
        codec' = [codec EXCEPT !.stage = "read", !.rip = r.ip, !.rport = r.port,
                               !.rerr = r.err, !.roff = r.off]
    /\ UNCHANGED <<focus, nQueries, gameVars, masterVars, obs, lists>>

\* ReadAddressPort(bytes.NewReader(b)) for bytes b made by hand.
CodecReadBytes ==
    /\ focus = "codec"
    /\ codec.op = "bytes" /\ codec.stage = "new"
    /\ LET r == ReadAddressPort(codec.str, 0) IN
        codec' = [codec EXCEPT !.stage = "read", !.buf = codec.str, !.rip = r.ip,
                               !.rport = r.port, !.rerr = r.err, !.roff = r.off]
    /\ UNCHANGED <<focus, nQueries, gameVars, masterVars, obs, lists>>

CodecNext ==
    \/ CodecWritePascalString
    \/ CodecReadPascalString
    \/ CodecWriteAddressPort
    \/ CodecReadAddressPort
    \/ CodecReadBytes

----------------------------------------------------------------------------
(* The specification *)

\* The two entity types share no state (neither file refers to the other):
\* a behaviour follows the callers of one entity.
Init ==
    /\ focus \in {"game", "master", "lists", "codec"}
    /\ nQueries = 0
    /\ g = NewGameServer
    /\ gLock = "free"
    /\ gCall = [c \in Callers |-> Idle]
    /\ gRet = "never"
    /\ gIn = NoDelivery
    /\ gOff = 0
    /\ gSock = "none"
    /\ gLat = 0
    /\ m = NewMasterServer
    /\ mLock = "free"
    /\ mCall = [c \in Callers |-> Idle]
    /\ mRet = "never"
    /\ mIn = <<>>
    /\ mOff = 0
    /\ mSock = "none"
    /\ mSum = 0
    /\ obs = [reads |-> FALSE, mid |-> FALSE]
    /\ lists \in {NewLists(a) : a \in IF focus = "lists" THEN ListAccessors
                                                        ELSE {"game.go:Teams"}}
    /\ codec \in IF focus = "codec" THEN CodecInputs
                                    ELSE {NewCodec("none", <<>>, <<>>, <<>>, 0)}

Next == GameNext \/ MasterNext \/ ListNext \/ CodecNext

Spec == Init /\ [][Next]_vars

----------------------------------------------------------------------------
(* The specification with fairness: the same Query actions, on fewer        *)
(* inputs (one key, one latency, the datagrams of some kinds), with every   *)
(* blocking call returning.                                                 *)

LiveKeys == {4660}
LiveLatencies == {3}
LiveKinds == {"reply", "source", "key"}

LiveInit == Init /\ focus \in {"game", "master"}

\* A call blocked in ReadFromUDP leaves it: the deadline set by SetDeadline
\* is finite, so the read returns a datagram or the timeout error
\* (game.go:241-248, part_002:151-158).
GameReadReturns(c) ==
    \/ GameReadTimeout(c)
    \/ \E d \in {x \in GameInputs(c) : x.kind \in LiveKinds}, e \in LiveLatencies :
            GameReceive(c, d, e)

MasterReadReturns(c) ==
    \/ MasterReadTimeout(c)
    \/ \E d \in {x \in MasterInputs(c) : x.kind \in LiveKinds},
          e \in MasterLatencies(c) \cap ({0} \cup LiveLatencies) :
            MasterReceive(c, d, e)

\* A call that starts, or one blocked in mutex.Lock(), goes on to the read
\* or to an early return once the mutex is free.
GameLockReturns(c) ==
    \/ GameDialError(c)
    \/ GameSendError(c)
    \/ \E k \in LiveKeys : GameQuerySend(c, k)

MasterLockReturns(c) ==
    \/ MasterDialError(c)
    \/ MasterSendError(c)
    \/ \E k \in LiveKeys : MasterQuerySend(c, k)

LiveNext ==
    \/ \E c \in Callers : GameResolveError(c)
    \/ \E c \in Callers : GameLockWaits(c)
    \/ \E c \in Callers : GameLockReturns(c)
    \/ \E c \in Callers : GameReadReturns(c)
    \/ GameAccessor
    \/ \E c \in Callers : MasterResolveError(c)
    \/ \E c \in Callers : MasterLockWaits(c)
    \/ \E c \in Callers : MasterLockReturns(c)
    \/ \E c \in Callers : MasterReadReturns(c)
    \/ MasterAccessor

\* Every goroutine that can take a step is scheduled: a read with a deadline
\* returns, and a Lock on a free mutex returns to a caller that waits for it.
Fairness ==
    /\ WF_vars(\E c \in Callers : GameReadReturns(c))
    /\ WF_vars(\E c \in Callers : gCall[c].pc = "locking" /\ GameLockReturns(c))
    /\ WF_vars(\E c \in Callers : MasterReadReturns(c))
    /\ WF_vars(\E c \in Callers : mCall[c].pc = "locking" /\ MasterLockReturns(c))

LiveSpec == LiveInit /\ [][LiveNext]_vars /\ Fairness

----------------------------------------------------------------------------
(* Properties *)

\* A GameServer.Query has returned an error / a MasterServer.Query has.
GameQueryFailed == gLock = "free" /\ gRet \notin {"never", "pending", "none"}
MasterQueryFailed == mLock = "free" /\ mRet \notin {"never", "pending", "none"}

\* The "ip:port" texts of the entries of a packet, in the order of the packet.
PacketServers(r) == [i \in 1..Len(r.servers) |-> ServerText(r.servers[i].ip, r.servers[i].port)]

\* The entries of the packets ds[1..n], one packet after the other.
RECURSIVE ServersOf(_, _)
ServersOf(ds, n) ==
    IF n = 0 THEN <<>> ELSE ServersOf(ds, n - 1) \o PacketServers(ds[n].rec)

\* The bytes ReadFromUDP hands over of a datagram of len bytes.
ReceivedLen(len, size) == Min(len, size)

C2_ServerCountIsRunningSum ==
    mRet = "none" =>
        /\ \A i \in 1..Len(mIn) : mIn[i].kind = "reply"
        /\ m.serverCount = Len(ServersOf(mIn, Len(mIn)))
        /\ Len(m.servers) = m.serverCount

\* A query of two packets, each with entries, has succeeded.
C2_Witness ==
    /\ mRet = "none" /\ Len(mIn) = 2
    /\ Len(mIn[1].rec.servers) > 0 /\ Len(mIn[2].rec.servers) > 0
    /\ m.serverCount = Len(mIn[1].rec.servers) + Len(mIn[2].rec.servers)

\* C3: for an exchange of the two packets 1 of 2 and 2 of 2, the list after a
\* successful MasterServer.Query has every server of packet 1 before every
\* server of packet 2, in whichever order the two datagrams were delivered.
C3_OrderedByPacketNumber ==
    (/\ mRet = "none" /\ Len(mIn) = 2
     /\ {mIn[1].rec, mIn[2].rec} = {Packet1of2, Packet2of2}) =>
        m.servers = PacketServers(Packet1of2) \o PacketServers(Packet2of2)

\* C4: a datagram whose source address or source port is not the target's
\* makes Query return SourceMismatch, in GameServer.Query and for every
\* packet of MasterServer.Query, whatever the datagram holds.
C4_SourceMismatchRejected ==
    /\ (gIn.kind # "none" /\ gIn.src # Target) => gRet = "SourceMismatch"
    /\ \A i \in 1..Len(mIn) :
            mIn[i].src # Target => (i = Len(mIn) /\ mRet = "SourceMismatch")

\* The second packet of a master query came from another port or address.
C4_Witness ==
    /\ Len(mIn) = 2 /\ mIn[2].kind = "source" /\ mIn[2].src.ip = Target.ip
    /\ mRet = "SourceMismatch"

\* C5: a reply that is otherwise well-formed but carries another key than
\* the one this call sent makes Query return KeyMismatch, in GameServer.Query
\* and for every packet of MasterServer.Query; a Query that returned nil read
\* only replies with the key it sent.
C5_KeyMismatchRejected ==
    /\ gIn.kind = "key" => gRet = "KeyMismatch"
    /\ gRet = "none" => gIn.key = gIn.sent
    /\ \A i \in 1..Len(mIn) :
            /\ mIn[i].kind = "key" => (i = Len(mIn) /\ mRet = "KeyMismatch")
            /\ mRet \in {"none", "pending"} => mIn[i].key = mIn[i].sent

\* A game reply carrying the other key of Keys was rejected.
C5_Witness ==
    /\ gIn.kind = "key" /\ gIn.key \in Keys /\ gIn.key # gIn.sent
    /\ gRet = "KeyMismatch"

C7_FailedGameQueryLeavesEmpty ==
    GameQueryFailed =>
        /\ g.numTeams = 0 /\ g.numPlayers = 0
        /\ g.teams = <<>> /\ g.players = <<>>

\* C8: after a GameServer.Query that failed because the read timed out, every
\* decoded field has its cleared value, whatever the entity held before.
C8_TimeoutLeavesCleared ==
    (gLock = "free" /\ gRet = "Timeout") =>
        \A f \in GameDecoded : g[f] = NewGameServer[f]

\* C9: after a failed MasterServer.Query name, motd, serverCount and servers
\* are those of an entity that never completed a query, whether the failure
\* came on the first packet or on a later one.
C9_FailedMasterQueryLeavesNothing ==
    MasterQueryFailed =>
        /\ m.name = NewMasterServer.name /\ m.motd = NewMasterServer.motd
        /\ m.serverCount = 0 /\ m.servers = <<>>

\* C10: no read accessor returns while a Query on its entity is between its
\* reset and its return: what an accessor returns is the state before that
\* Query took the lock or after it released it.
C10_NoReadMidQuery == obs.mid = FALSE

\* An accessor has returned, and a Query now holds the lock with the reset
\* done and the reply not yet read.
C10_Witness ==
    /\ obs.reads
    /\ \/ gLock # "free" /\ gRet = "pending"
       \/ mLock # "free" /\ mRet = "pending" /\ Len(mIn) = 1

\* C11: Query calls on one entity are serialized: while one Query is between
\* its reset and its return no other Query on the entity is, the lock is
\* its own, and every step that changes the entity's state is a step of that
\* Query, so that the writes of two calls never interleave.
C11_QueriesSerialized ==
    [][\A c \in Callers :
          /\ gCall[c].pc = "reading" =>
                /\ gLock = c
                /\ \A o \in Callers \ {c} : gCall[o].pc # "reading"
                /\ g' # g => gCall'[c] # gCall[c]
          /\ mCall[c].pc = "reading" =>
                /\ mLock = c
                /\ \A o \in Callers \ {c} : mCall[o].pc # "reading"
                /\ m' # m => mCall'[c] # mCall[c]]_vars

\* One Query has decoded the first packet of two while another call on the
\* same entity waits for the lock.
C11_Witness ==
    \E c \in Callers, o \in Callers :
        /\ mCall[c].pc = "reading" /\ mCall[c].p = 1
        /\ mCall[o].pc = "locking"

\* C12: the list accessors (GameServer.Teams, GameServer.Players,
\* MasterServer.Servers) return copies: the entity's list stays what the last
\* Query decoded whatever a caller writes into a list it was given, and a
\* list a caller holds stays what the caller made of it whatever a later
\* Query does.
C12_ListAccessorsReturnCopies ==
    /\ Content(lists.arrays, lists.field) = lists.decoded
    /\ Content(lists.arrays, lists.ret) = lists.held

\* The datagram a history record stands for, among those the server may send.
GameDatagram(in) ==
    CHOOSE d \in (CHOOSE p \in GameDeliveries : p[1] = in.sent)[2] :
        Delivered(d, in.sent, in.dirty) = in
MasterDatagram(in) ==
    CHOOSE d \in (CHOOSE p \in MasterDeliveries : p[1] = in.sent)[2] :
        Delivered(d, in.sent, in.dirty) = in

\* What a Query leaves in a never-queried entity that reads the datagram(s).
GameOnFresh(in) ==
    GameAfterRead(GameReset(NewGameServer),
                  Received(GameDatagram(in).bytes, ReadBufferSize), in.src, in.sent, 0).s

RECURSIVE MasterOnFresh(_, _)
MasterOnFresh(ins, n) ==
    IF n = 0 THEN MasterReset(NewMasterServer)
    ELSE MasterAfterRead(MasterOnFresh(ins, n - 1),
                         Received(MasterDatagram(ins[n]).bytes, RecvBufSize),
                         ins[n].src, ins[n].sent, TRUE, 0).s

\* C13: a successful Query replaces the decoded state: whatever the entity
\* held before the call (nothing, the values of a success, the leftovers of a
\* failure), the decoded fields after it are those the same datagram(s) leave
\* in an entity that was never queried.
C13_SuccessReplacesDecodedState ==
    /\ gRet = "none" =>
            \A f \in GameDecoded : g[f] = GameOnFresh(gIn)[f]
    /\ mRet = "none" =>
            \A f \in {"name", "motd", "serverCount", "servers"} :
                m[f] = MasterOnFresh(mIn, Len(mIn))[f]

\* A Query on an entity that held decoded values has succeeded on the reply
\* with every string empty and no team or player.
C13_Witness ==
    /\ gRet = "none" /\ gIn.dirty /\ gIn.rec = ReplyEmpty
    /\ ~GameDirty(g)

\* C14: a string of 0 to 255 bytes written by WritePascalString is one length
\* byte equal to the length followed by the bytes of the string, and
\* ReadPascalString reads the same string back from those bytes.
C14_PascalStringRoundTrip ==
    (codec.op = "string" /\ Len(codec.str) <= 255) =>
        /\ codec.stage # "new" =>
                /\ codec.werr = "none"
                /\ codec.buf = codec.prefix \o <<Len(codec.str)>> \o codec.str
        /\ codec.stage = "read" =>
                /\ codec.rerr = "none"
                /\ codec.rstr = codec.str
                /\ codec.roff = Len(codec.buf)

\* A string of 255 bytes has been written and read back.
C14_Witness ==
    /\ codec.op = "string" /\ codec.stage = "read"
    /\ Len(codec.str) = 255 /\ codec.rstr = codec.str

\* C15: WritePascalString returns the error StringTooLong for every string
\* longer than 255 bytes and no error for a string of 255 bytes or fewer.
C15_StringTooLongIffOver255 ==
    (codec.op = "string" /\ codec.stage # "new") =>
        /\ Len(codec.str) > 255 => codec.werr = "StringTooLong"
        /\ Len(codec.str) <= 255 => codec.werr = "none"

\* A string of 256 bytes has been refused.
C15_Witness ==
    /\ codec.op = "string" /\ codec.stage = "written"
    /\ Len(codec.str) = 256 /\ codec.werr = "StringTooLong"

\* C16: a 4-byte address and a port written by WriteAddressPort are the
\* bytes 6, the four address bytes in order, the low byte of the port, the
\* high byte of the port; ReadAddressPort reads the same address and port
\* back from them.
C16_AddressPortRoundTrip ==
    (codec.op = "address" /\ Len(codec.ip) = 4) =>
        /\ codec.stage # "new" =>
                /\ codec.werr = "none"
                /\ codec.buf = codec.prefix \o <<6>> \o codec.ip
                                   \o <<codec.port % 256, codec.port \div 256>>
        /\ codec.stage = "read" =>
                /\ codec.rerr = "none"
                /\ codec.rip = codec.ip
                /\ codec.rport = codec.port

\* 12.13.14.15:28001 has been written as 6, 12, 13, 14, 15, 97, 109 and
\* read back (utils_test.go:47-71).
C16_Witness ==
    /\ codec.op = "address" /\ codec.stage = "read"
    /\ codec.ip = <<12, 13, 14, 15>> /\ codec.port = 28001
    /\ codec.buf = <<6, 12, 13, 14, 15, 97, 109>>
    /\ codec.rport = 28001

\* C17: ReadAddressPort returns an error for every input whose first byte is
\* not 6, a master packet with such an address entry makes
\* MasterServer.Query fail, and WriteAddressPort returns an error for every
\* address that is not 4 bytes long.
C17_AddressTagAndLengthErrors ==
    /\ (codec.op = "bytes" /\ codec.stage = "read" /\ codec.str # <<>>
            /\ codec.str[1] # 6) => codec.rerr = "InvalidAddressTag"
    /\ \A i \in 1..Len(mIn) :
            mIn[i].kind = "tag" => (i = Len(mIn) /\ mRet = "InvalidAddressTag")
    /\ (codec.op = "address" /\ codec.stage # "new" /\ Len(codec.ip) # 4) =>
            codec.werr = "InvalidAddressLength"

\* The second packet of a master reply held an address entry whose tag is
\* not 6, and the Query returned the error of ReadAddressPort.
C17_Witness ==
    /\ Len(mIn) = 2 /\ mIn[2].kind = "tag" /\ mRet = "InvalidAddressTag"

\* C18: the request of a GameServer.Query is the 3 bytes 0x62, key div 256,
\* key mod 256, that of a MasterServer.Query the 8 bytes 0x10, 0x03, 0xFF,
\* 0x00, key div 256, key mod 256, 0x00, 0x00, and the key in the request is
\* the key every reply of the call is compared against.
C18_RequestBytes ==
    \A c \in Callers :
        /\ gCall[c].pc = "reading" =>
                /\ gCall[c].req \in {<<98, 18, 52>>, <<98, 171, 205>>}
                /\ gCall[c].req[2] * 256 + gCall[c].req[3] = gCall[c].key
        /\ mCall[c].pc = "reading" =>
                /\ mCall[c].req \in {<<16, 3, 255, 0, 18, 52, 0, 0>>,
                                     <<16, 3, 255, 0, 171, 205, 0, 0>>}
                /\ mCall[c].req[5] * 256 + mCall[c].req[6] = mCall[c].key
                /\ \A i \in 1..Len(mIn) :
                        mIn[i].sent = mCall[c].req[5] * 256 + mCall[c].req[6]

\* A MasterServer.Query that sent the key 0x1234 has compared one reply with
\* it and waits for the next.
C18_Witness ==
    \E c \in Callers :
        /\ mCall[c].pc = "reading" /\ Len(mIn) = 1
        /\ mCall[c].req = <<16, 3, 255, 0, 18, 52, 0, 0>>

\* C19: the socket a Query opens is closed on every exit path: while a call
\* reads, its socket is open, and once no call holds the lock (every call
\* has returned, with nil, a timeout, a send error, a validation error or a
\* decode error) no socket is open.
C19_SocketClosedOnEveryExit ==
    /\ gLock = "free" => gSock # "open"
    /\ mLock = "free" => mSock # "open"
    /\ \A c \in Callers :
            /\ gCall[c].pc = "reading" => gSock = "open"
            /\ mCall[c].pc = "reading" => mSock = "open"
    /\ gRet \notin {"never", "pending", "ResolutionError", "SocketError"} =>
            gSock = "closed"
    /\ mRet \notin {"never", "pending", "ResolutionError", "SocketError"} =>
            mSock = "closed"

\* A MasterServer.Query has returned a validation error on its second
\* packet, and its socket is closed.
C19_Witness ==
    /\ Len(mIn) = 2 /\ mRet = "KeyMismatch" /\ mSock = "closed"

\* C20: a MasterServer.Query never receives more than 5 packets in one call,
\* and one that succeeds has received between 1 and 5, whatever totals the
\* packets declare and however the total changes from packet to packet.
C20_AtMostFiveReceives ==
    /\ Len(mIn) <= 5
    /\ mRet = "none" => Len(mIn) \in 1..5
    /\ \A c \in Callers : mCall[c].pc = "reading" => mCall[c].p = Len(mIn) /\ Len(mIn) < 5

\* A Query has succeeded on five packets, the first declaring a total of 3
\* and the later ones a total of 5.
C20_Witness ==
    /\ Len(mIn) = 5 /\ mRet = "none"
    /\ mIn[1].rec = Packet1of3 /\ mIn[5].rec = Packet5of5

\* C21: the receive loop of MasterServer.Query expects 1 packet at first and
\* then the total declared by the last packet that passed the key check; a
\* successful Query has consumed k packets, k being the least number such
\* that the k-th packet declares a total of at most k.
C21_LoopFollowsDeclaredTotal ==
    /\ \A c \in Callers :
            mCall[c].pc = "reading" =>
                m.totalPackets = IF Len(mIn) = 0 THEN 1 ELSE mIn[Len(mIn)].rec.total
    /\ mRet = "none" =>
            /\ Len(mIn) >= 1
            /\ mIn[Len(mIn)].rec.total <= Len(mIn)
            /\ \A i \in 1..(Len(mIn) - 1) : mIn[i].rec.total > i
    /\ (Len(mIn) >= 1 /\ mIn[Len(mIn)].kind \in {"marker", "tag", "count"}) =>
            m.totalPackets = mIn[Len(mIn)].rec.total

\* A Query has succeeded on two packets, the first declaring a total of 3 and
\* the second a total of 2.
C21_Witness ==
    /\ mRet = "none" /\ Len(mIn) = 2
    /\ mIn[1].rec = Packet1of3 /\ mIn[2].rec = Packet2of2

\* C22: a master packet whose number is outside 1..5, whose total is outside
\* 1..5 or whose number exceeds its total makes MasterServer.Query fail with
\* nothing of the packet stored; so every packet that changes the name, the
\* MOTD, the server count or the server list has 1 <= number <= total <= 5.
C22_PacketHeaderChecked ==
    [][Len(mIn') = Len(mIn) + 1 =>
        LET last == mIn'[Len(mIn')]
            b    == MasterDatagram(last).bytes
        IN  /\ (\E f \in {"name", "motd", "serverCount", "servers"} : m'[f] # m[f]) =>
                    /\ Len(b) >= 4
                    /\ 1 <= b[3] /\ b[3] <= b[4] /\ b[4] <= 5
            /\ last.kind \in {"number", "total", "order"} =>
                    /\ mRet' \in {"InvalidPacketNumber", "InvalidPacketTotal",
                                  "PacketOrderError"}
                    /\ \A f \in {"name", "motd", "serverCount", "servers",
                                 "totalPackets"} : m'[f] = m[f]
    ]_vars

\* The second packet of a reply had number 2 of a total of 1; the Query
\* failed, the entity holding what the first packet left.
C22_Witness ==
    /\ Len(mIn) = 2 /\ mIn[2].kind = "order" /\ mRet = "PacketOrderError"
    /\ m.servers = ServersOf(mIn, 1)

\* C23: an error ends the Query at once and nothing is retried: a call sends
\* one request; while a call still reads, every datagram it has consumed was
\* a valid reply from the target; only the last datagram a call consumed can
\* be an invalid one, and then the call has returned an error and reads no
\* more.
C23_ErrorsAbortAtOnce ==
    /\ \A c \in Callers :
            /\ gCall[c].pc = "reading" => (gCall[c].sends = 1 /\ gIn = NoDelivery)
            /\ mCall[c].pc = "reading" =>
                    /\ mCall[c].sends = 1
                    /\ \A i \in 1..Len(mIn) :
                            mIn[i].kind = "reply" /\ mIn[i].src = Target
    /\ \A i \in 1..(Len(mIn) - 1) : mIn[i].kind = "reply" /\ mIn[i].src = Target
    /\ (Len(mIn) >= 1 /\ mIn[Len(mIn)].kind \notin {"reply", "trailing"}) =>
            /\ mRet \notin {"none", "pending", "never"}
            /\ \A c \in Callers : mCall[c].pc # "reading"
    /\ gIn.kind \notin {"none", "reply", "trailing"} =>
            /\ gRet \notin {"none", "pending", "never"}
            /\ \A c \in Callers : gCall[c].pc # "reading"

\* A MasterServer.Query has consumed a valid first packet and then a datagram
\* from another source, and has returned the source error without reading on.
C23_Witness ==
    /\ Len(mIn) = 2 /\ mIn[1].rec = Packet1of3 /\ mIn[2].kind = "source"
    /\ mRet = "SourceMismatch"

\* C24: GameServer.Query stores the latency as soon as a datagram has been
\* received, before any check of it: Ping() is the latency of the last
\* datagram any Query of the entity received, whether that Query then
\* succeeded or failed, and a Query that fails before a datagram arrives
\* (resolution, socket, send, timeout) leaves it as it was.
C24_PingRecordedBeforeValidation ==
    /\ g.ping = gLat
    /\ (gIn.kind # "none" /\ gRet # "pending") => gLat \in Latencies
    /\ gRet \in {"ResolutionError", "SocketError", "SendError", "Timeout"} =>
            gIn.kind = "none"

\* The second Query of an entity received a datagram from another source
\* after 5 time units and failed; Ping() is 5.
C24_Witness ==
    /\ gRet = "SourceMismatch" /\ g.queryTime = 2
    /\ gLat = 5 /\ g.ping = 5

\* C25: GameServer.Query returns ReplyTooShort for every reply of fewer than
\* 20 bytes, and none of those replies would pass the decode steps: the
\* reply with every string empty, no team and no player is 20 bytes long and
\* is accepted, and every shorter datagram fails the decode on its own.
C25_MinimumReplyLength ==
    /\ (gIn.kind # "none" /\ gIn.src = Target /\ gIn.len < 20) =>
            /\ gRet = "ReplyTooShort"
            /\ GameDecode(NewGameServer, GameDatagram(gIn).bytes, gIn.sent).err # "none"
    /\ (gIn.kind = "reply" /\ gIn.rec = ReplyEmpty) =>
            (gIn.len = 20 /\ gRet = "none")
    /\ gRet = "none" => gIn.len >= 20

\* The first 19 bytes of the shortest reply have been refused.
C25_Witness ==
    /\ gIn.kind = "cut" /\ gIn.rec = ReplyEmpty /\ gIn.len = 19
    /\ gRet = "ReplyTooShort"

\* The kinds of datagram that fail a check made before the decoded fields are
\* assigned: the source, the fixed bytes ahead of the key, the packet number
\* and total, the key; and those that fail a fixed byte after the key.
FailsBeforeKey == {"source", "version", "type", "opcode", "number", "total", "order", "key"}
FailsFixedByteAfterKey == {"echo", "marker"}

\* The decoded fields of a MasterServer.
MasterDecoded == {"name", "motd", "serverCount", "servers"}

\* C26 as stated: a datagram that fails the source check, a fixed-header
\* check, the packet-number or packet-total checks or the key check changes
\* no decoded field of a GameServer, and changes neither the name, the MOTD,
\* the server count, the server list nor the expected packet total of a
\* MasterServer.
C26_RejectedDataNeverStored ==
    [][/\ (gIn' # gIn /\ gIn'.kind \in FailsBeforeKey \cup FailsFixedByteAfterKey) =>
            \A f \in GameDecoded : g'[f] = g[f]
       /\ (Len(mIn') = Len(mIn) + 1
            /\ mIn'[Len(mIn')].kind \in FailsBeforeKey \cup FailsFixedByteAfterKey) =>
            \A f \in MasterDecoded \cup {"totalPackets"} : m'[f] = m[f]
    ]_vars

\* C26, amended: such a datagram changes no decoded field of a GameServer and
\* none of the name, the MOTD, the server count and the server list of a
\* MasterServer; the expected packet total is left alone by a packet that
\* fails the source check, the first two bytes, the packet-number or
\* packet-total checks or the key check, and is set to the declared total by
\* a packet that passes the key check and then fails a fixed marker byte.
C26_RejectedDataStoredOnlyAsTotal ==
    [][/\ (gIn' # gIn /\ gIn'.kind \in FailsBeforeKey \cup FailsFixedByteAfterKey) =>
            \A f \in GameDecoded : g'[f] = g[f]
       /\ Len(mIn') = Len(mIn) + 1 =>
            LET last == mIn'[Len(mIn')] IN
            /\ last.kind \in FailsBeforeKey \cup FailsFixedByteAfterKey =>
                    \A f \in MasterDecoded : m'[f] = m[f]
            /\ last.kind \in FailsBeforeKey => m'.totalPackets = m.totalPackets
            /\ last.kind \in FailsFixedByteAfterKey =>
                    m'.totalPackets = last.rec.total
    ]_vars

\* The first packet of a reply declared a total of 2 and had a wrong marker
\* byte: the Query failed, nothing decoded, the expected total now 2.
C26_Witness ==
    /\ Len(mIn) = 1 /\ mIn[1].kind = "marker" /\ mRet = "ProtocolMismatch"
    /\ m.totalPackets = 2 /\ m.name = <<>> /\ m.servers = <<>>

\* C27: in a successful MasterServer.Query no two consumed packets carry the
\* same packet number, and the numbers of the consumed packets are exactly
\* 1..total.
C27_NoPacketNumberTwice ==
    mRet = "none" =>
        /\ \A i, j \in 1..Len(mIn) : i # j => mIn[i].rec.number # mIn[j].rec.number
        /\ {mIn[i].rec.number : i \in 1..Len(mIn)} = 1..mIn[Len(mIn)].rec.total

\* C28: the 16-bit serverCount never wraps: at every point of every
\* MasterServer.Query, successful or failed, it is the arithmetic sum of the
\* counts added so far, and it is never smaller than the number of entries
\* in the server list.
C28_ServerCountNeverWraps ==
    /\ m.serverCount = mSum
    /\ m.serverCount >= Len(m.servers)

\* C29: a failed encode appends nothing: when WritePascalString or
\* WriteAddressPort has returned an error, the buffer holds the bytes it held
\* before the call.
C29_FailedEncodeAppendsNothing ==
    (codec.stage = "written" /\ codec.werr # "none") => codec.buf = codec.prefix

\* Caller c is inside a Query: it waits for the lock, reads, or holds the
\* lock of an entity.
InQuery(c) ==
    \/ gCall[c].pc # "idle" \/ gLock = c
    \/ mCall[c].pc # "idle" \/ mLock = c

\* C30: under fair scheduling and finite deadlines every Query returns, the
\* one that waited for the lock included, and has released the write lock
\* when it has returned; so the lock is free again for the accessors and for
\* later Query calls.
C30_LockAlwaysReleased ==
    \A c \in Callers : InQuery(c) ~> ~InQuery(c)

\* A GameServer.Query waits in Lock while another Query reads.
C30_Witness ==
    \E c, o \in Callers : gCall[c].pc = "reading" /\ gCall[o].pc = "locking"

============================================================================
